---- MODULE Spec2Model ----
(***************************************************************************)
(* A model of lib/Parse/ParseType.cpp: the committed type parser           *)
(* (parseType and its productions) and the speculative prober              *)
(* (canParseType and its productions) over one token cursor.               *)
(*                                                                         *)
(* The cursor is the sequence of tokens still ahead: its head is Tok, its  *)
(* second element is peekToken().  A token is a record                     *)
(*   [k: kind, t: text as a sequence of characters, sol: start of line,    *)
(*    prev: the character just before the token in the buffer].            *)
(* The buffer always ends in an eof token, which is never consumed.        *)
(***************************************************************************)
EXTENDS Integers, Sequences, FiniteSets, TLC

VARIABLES
  toks,      \* the token buffer of the parsing session
  rest,      \* the cursor: the tokens from Tok on
  op,        \* the entry point called ("none" before the call)
  result,    \* what it returned: a node, Null, or a Bool record
  arg,       \* the node it was handed (Null when it takes none)
  diags,     \* the diagnostics emitted
  allocated  \* the number of type nodes allocated

vars == <<toks, rest, op, result, arg, diags, allocated>>

----------------------------------------------------------------------------
(* Tokens and the lexer interface.                                         *)

Tk(k, t) == [k |-> k, t |-> t, sol |-> FALSE, prev |-> " "]

AtLine(tok) == [tok EXCEPT !.sol = TRUE]

AfterGreater(tok) == [tok EXCEPT !.prev = ">"]

EofTok == Tk("eof", <<>>)

Tok(r) == Head(r)

peekToken(r) == IF Len(r) > 1 THEN r[2] ELSE r[1]

consumeToken(r) == IF Tok(r).k = "eof" THEN r ELSE Tail(r)

consumeIf(r, k) == IF Tok(r).k = k THEN consumeToken(r) ELSE r

\* The source location of Tok: its index in the buffer.
Loc(r) == Len(toks) - Len(r) + 1

isAnyOperator(tok) == tok.k = "oper"

startsWithLess(tok) == isAnyOperator(tok) /\ tok.t[1] = "<"

startsWithGreater(tok) == isAnyOperator(tok) /\ tok.t[1] = ">"

\* Consume the first character of an operator token: the whole token when it
\* is one character long, else the token is cut down to its remaining text.
consumeStartingCharacter(r) ==
  IF Len(Tok(r).t) = 1 THEN consumeToken(r)
  ELSE <<[Tok(r) EXCEPT !.t = Tail(Tok(r).t)]>> \o Tail(r)

consumeStartingLess(r) == consumeStartingCharacter(r)

consumeStartingGreater(r) == consumeStartingCharacter(r)

isFollowingLSquare(tok) == tok.k = "l_square" /\ ~tok.sol

isStartOfDecl(tok, next) == tok.k = "kw_var"

isStartOfBindingName(tok) == tok.k = "identifier"

\* IDENTIFIER_KEYWORD: the keywords that may stand where an identifier may.
isIdentifierToken(tok) == tok.k \in {"identifier", "kw_This"}

RECURSIVE skipSingle(_), skipUntil(_, _)

Closer(k) ==
  CASE k = "l_paren" -> "r_paren"
    [] k = "l_square" -> "r_square"
    [] k = "l_brace" -> "r_brace"
    [] OTHER -> "none"

skipSingle(r) ==
  IF Tok(r).k \in {"l_paren", "l_square", "l_brace"}
  THEN consumeIf(skipUntil(consumeToken(r), {Closer(Tok(r).k)}), Closer(Tok(r).k))
  ELSE consumeToken(r)

skipUntil(r, ks) ==
  IF Tok(r).k = "eof" \/ Tok(r).k \in ks THEN r ELSE skipUntil(skipSingle(r), ks)

RECURSIVE skipUntilAnyOperator(_)

skipUntilAnyOperator(r) ==
  IF Tok(r).k = "eof" \/ isAnyOperator(Tok(r)) THEN r
  ELSE skipUntilAnyOperator(skipSingle(r))

----------------------------------------------------------------------------
(* Speculative type list parsing (the prober).  Each operator returns      *)
(* [ok, rest]: the boolean the function returns and the cursor it leaves.  *)

Can(ok, r) == [ok |-> ok, rest |-> r]

\* isGenericTypeDisambiguatingToken without the start-of-line test.
isGenericTypeDisambiguatingToken_AnyLine(tok) ==
  tok.k \in {"r_paren", "r_square", "l_brace", "r_brace", "period", "comma",
             "semi", "eof", "l_paren", "l_square"}
  \/ (tok.k = "period_prefix" /\ tok.prev = ">")

isGenericTypeDisambiguatingToken(tok) ==
  CASE tok.k \in {"r_paren", "r_square", "l_brace", "r_brace", "period",
                  "comma", "semi", "eof"} -> TRUE
    [] tok.k = "period_prefix" -> tok.prev = ">"
    [] tok.k \in {"l_paren", "l_square"} -> ~tok.sol
    [] OTHER -> FALSE

RECURSIVE canParseType(_), canParseTypeIdentifier(_), canParseGenericArguments(_),
          canParseTypeTupleBody(_), canParseTypeArray(_)

RECURSIVE canGenericArgumentLoop(_)

\* while (consumeIf(tok::comma)), t being what canParseType returned.
canGenericArgumentNext(t) ==
  IF ~t.ok THEN t
  ELSE IF Tok(t.rest).k = "comma" THEN canGenericArgumentLoop(consumeToken(t.rest))
  ELSE t

\* do { if (!canParseType()) return false; } while (consumeIf(tok::comma));
canGenericArgumentLoop(r) == canGenericArgumentNext(canParseType(r))

\* The closing '>', l being what the loop returned.
canGenericArgumentsEnd(l) ==
  IF ~l.ok THEN l
  ELSE IF ~startsWithGreater(Tok(l.rest)) THEN Can(FALSE, l.rest)
  ELSE Can(TRUE, consumeStartingGreater(l.rest))

canParseGenericArguments(r) ==
  IF ~startsWithLess(Tok(r)) THEN Can(FALSE, r)
  ELSE canGenericArgumentsEnd(canGenericArgumentLoop(consumeStartingLess(r)))

\* BacktrackingScope: on leaving the scope the cursor is the saved one.
BacktrackingScope(saved, current) == saved

\* if (canParseGenericArguments()) return isGenericTypeDisambiguatingToken(Tok);
\* return false; g being what canParseGenericArguments returned from cursor r.
canDisambiguatedArguments(r, g) ==
  Can(g.ok /\ isGenericTypeDisambiguatingToken(Tok(g.rest)),
      BacktrackingScope(r, g.rest))

\* canParseAsGenericArgumentList without its BacktrackingScope.
canParseAsGenericArgumentList_NoBacktrack(r) ==
  IF ~isAnyOperator(Tok(r)) \/ Tok(r).t # <<"<">> THEN Can(FALSE, r)
  ELSE LET g == canParseGenericArguments(r) IN
       Can(g.ok /\ isGenericTypeDisambiguatingToken(Tok(g.rest)), g.rest)

canParseAsGenericArgumentList(r) ==
  IF ~isAnyOperator(Tok(r)) \/ Tok(r).t # <<"<">> THEN Can(FALSE, r)
  ELSE canDisambiguatedArguments(r, canParseGenericArguments(r))

RECURSIVE canMetatypeLoop(_)

isPeriod(tok) == tok.k \in {"period", "period_prefix"}

canMetatypeLoop(r) ==
  IF isPeriod(Tok(r)) /\ peekToken(r).k = "kw_metatype"
  THEN canMetatypeLoop(consumeToken(consumeToken(r)))
  ELSE r

RECURSIVE canOptionalLoop(_)

canOptionalLoop(r) ==
  IF ~Tok(r).sol /\ Tok(r).k = "question" THEN canOptionalLoop(consumeToken(r))
  ELSE r

RECURSIVE canIdentifierLoop(_)

\* if (startsWithLess(Tok)) { if (!canParseGenericArguments()) return false; }
canComponentArguments(r) ==
  IF startsWithLess(Tok(r)) THEN canParseGenericArguments(r) ELSE Can(TRUE, r)

\* The end of one pass of the while (true), g being what the arguments returned.
canIdentifierNext(g) ==
  IF ~g.ok THEN g
  ELSE IF isPeriod(Tok(g.rest)) /\ peekToken(g.rest).k # "kw_metatype"
  THEN canIdentifierLoop(consumeToken(g.rest))
  ELSE g

canIdentifierLoop(r) ==
  IF ~isIdentifierToken(Tok(r)) THEN Can(FALSE, r)
  ELSE canIdentifierNext(canComponentArguments(consumeToken(r)))

canParseTypeIdentifier(r) ==
  IF Tok(r).k # "identifier" /\ Tok(r).k # "kw_This" THEN Can(FALSE, r)
  ELSE canIdentifierLoop(r)

RECURSIVE canCompositionLoop(_)

canCompositionNext(p) ==
  IF ~p.ok THEN p
  ELSE IF Tok(p.rest).k = "comma" THEN canCompositionLoop(consumeToken(p.rest))
  ELSE p

canCompositionLoop(r) == canCompositionNext(canParseTypeIdentifier(r))

\* The terminating '>', l being what the loop returned.
canCompositionEnd(l) ==
  IF ~l.ok THEN l
  ELSE IF ~startsWithGreater(Tok(l.rest)) THEN Can(FALSE, l.rest)
  ELSE Can(TRUE, consumeStartingGreater(l.rest))

\* canParseTypeComposition once the starting '<' is consumed.
canCompositionList(r) ==
  IF startsWithGreater(Tok(r)) THEN Can(TRUE, consumeStartingGreater(r))
  ELSE canCompositionEnd(canCompositionLoop(r))

canParseTypeComposition(r) ==
  IF ~startsWithLess(Tok(consumeToken(r))) THEN Can(FALSE, consumeToken(r))
  ELSE canCompositionList(consumeStartingLess(consumeToken(r)))

RECURSIVE canSkipAttributeTokens(_)

canSkipAttributeTokens(r) ==
  IF Tok(r).k \notin {"eof", "r_brace", "r_square", "r_paren"}
     /\ ~isStartOfDecl(Tok(r), peekToken(r))
  THEN canSkipAttributeTokens(skipSingle(r))
  ELSE r

\* if (!consumeIf(tok::r_square)) return false;
canAttributesEnd(s) ==
  IF Tok(s).k = "r_square" THEN Can(TRUE, consumeToken(s)) ELSE Can(FALSE, s)

\* if (consumeIf(tok::l_square)) { skip...; if (!consumeIf(tok::r_square)) return false; }
canSkipAttributes(r) ==
  IF Tok(r).k # "l_square" THEN Can(TRUE, r)
  ELSE canAttributesEnd(canSkipAttributeTokens(consumeToken(r)))

RECURSIVE canSkipDefaultValue(_)

canSkipDefaultValue(r) ==
  IF Tok(r).k \notin {"eof", "r_paren", "r_brace", "ellipsis", "comma"}
     /\ ~isStartOfDecl(Tok(r), peekToken(r))
  THEN canSkipDefaultValue(skipSingle(r))
  ELSE r

\* if (!canParseType()) return false; a being what the attributes returned.
canElementType(a) == IF ~a.ok THEN a ELSE canParseType(a.rest)

\* The default value of a named element, t being what its type returned.
canElementDefault(t) ==
  IF ~t.ok THEN t
  ELSE IF Tok(t.rest).k = "equal"
  THEN Can(TRUE, canSkipDefaultValue(consumeToken(t.rest)))
  ELSE t

\* One pass of the do-while body of canParseTypeTupleBody.
canTupleElement(r) ==
  IF Tok(r).k = "identifier" /\ peekToken(r).k = "colon"
  THEN canElementDefault(
         canElementType(canSkipAttributes(consumeToken(consumeToken(r)))))
  ELSE canElementType(canSkipAttributes(r))

RECURSIVE canTupleLoop(_)

canTupleNext(e) ==
  IF ~e.ok THEN e
  ELSE IF Tok(e.rest).k = "comma" THEN canTupleLoop(consumeToken(e.rest))
  ELSE e

canTupleLoop(r) == canTupleNext(canTupleElement(r))

\* if (Tok.is(tok::r_paren)) { consumeToken(); return true; } else return false;
canTupleClose(r) ==
  IF Tok(r).k = "r_paren" THEN Can(TRUE, consumeToken(r)) ELSE Can(FALSE, r)

\* The optional ellipsis and the ')', l being what the element list returned.
canTupleEnd(l) ==
  IF ~l.ok THEN l
  ELSE canTupleClose(IF Tok(l.rest).k = "ellipsis" THEN consumeToken(l.rest)
                     ELSE l.rest)

canParseTypeTupleBody(r) ==
  canTupleEnd(IF Tok(r).k \notin {"r_paren", "r_brace", "ellipsis"}
                 /\ ~isStartOfDecl(Tok(r), peekToken(r))
              THEN canTupleLoop(r)
              ELSE Can(TRUE, r))

\* canParseTypeArray taking a size expression for a type it can parse.
canParseTypeArray_SizeAccepted(r) ==
  LET r1 == consumeToken(r) IN
  IF Tok(r1).k = "r_square"
  THEN LET r2 == consumeToken(r1) IN
       IF isFollowingLSquare(Tok(r2)) THEN canParseTypeArray(r2) ELSE Can(TRUE, r2)
  ELSE Can(TRUE, r1)

canParseTypeArray(r) ==
  LET r1 == consumeToken(r) IN
  IF Tok(r1).k = "r_square"
  THEN LET r2 == consumeToken(r1) IN
       IF isFollowingLSquare(Tok(r2)) THEN canParseTypeArray(r2) ELSE Can(TRUE, r2)
  ELSE Can(FALSE, r1)

canParseTypeSimple(r) ==
  CASE Tok(r).k \in {"kw_This", "identifier"} -> canParseTypeIdentifier(r)
    [] Tok(r).k = "kw_protocol" -> canParseTypeComposition(r)
    [] Tok(r).k = "l_paren" -> canParseTypeTupleBody(consumeToken(r))
    [] OTHER -> Can(FALSE, r)

\* if (Tok.isFollowingLSquare()) return canParseTypeArray(); return true;
canTypeArray(r) ==
  IF isFollowingLSquare(Tok(r)) THEN canParseTypeArray(r) ELSE Can(TRUE, r)

\* The arrow, or the optional loop and the array, r being the cursor after the
\* metatype loop.
canTypeSuffix(r) ==
  IF Tok(r).k = "arrow" THEN canParseType(consumeToken(r))
  ELSE canTypeArray(canOptionalLoop(r))

\* canParseType after its switch, s being what the switch returned.
canTypePostfix(s) == IF ~s.ok THEN s ELSE canTypeSuffix(canMetatypeLoop(s.rest))

canParseType(r) == canTypePostfix(canParseTypeSimple(r))

----------------------------------------------------------------------------
(* The AST.  Every node is a record with a kind; Null is the null pointer. *)
(* A source location is a token index; 0 is the invalid SourceLoc().       *)

Null == [kind |-> "Null"]

IsNull(n) == n.kind = "Null"

IdentTypeRepr(comps) == [kind |-> "Ident", comps |-> comps]

Component(loc, name, args) == [loc |-> loc, name |-> name, args |-> args]

ProtocolCompositionTypeRepr(protocols, protocolLoc, langle, end) ==
  [kind |-> "ProtocolComposition", protocols |-> protocols,
   protocolLoc |-> protocolLoc, langle |-> langle, end |-> end]

TupleTypeRepr(elems, lparen, end, ellipsis) ==
  [kind |-> "Tuple", elems |-> elems, lparen |-> lparen, end |-> end,
   ellipsis |-> ellipsis]

NamedTypeRepr(name, type, loc) ==
  [kind |-> "Named", name |-> name, type |-> type, loc |-> loc]

ArrayTypeRepr(base, size, lsquare, rsquare) ==
  [kind |-> "Array", base |-> base, size |-> size, lsquare |-> lsquare,
   rsquare |-> rsquare]

OptionalTypeRepr(base, questionLoc) ==
  [kind |-> "Optional", base |-> base, questionLoc |-> questionLoc]

MetaTypeTypeRepr(base, metatypeLoc) ==
  [kind |-> "Metatype", base |-> base, metatypeLoc |-> metatypeLoc]

FunctionTypeRepr(argTy, resTy) == [kind |-> "Function", arg |-> argTy, res |-> resTy]

AttributedTypeRepr(attrs, ty) == [kind |-> "Attributed", attrs |-> attrs, ty |-> ty]

----------------------------------------------------------------------------
(* The committed parser.  Each operator returns [node, rest, diags, news]: *)
(* the node returned (or Null), the cursor left, the diagnostics emitted   *)
(* in order, and the number of type nodes allocated.                       *)

P(node, r, ds, news) == [node |-> node, rest |-> r, diags |-> ds, news |-> news]

diagnose(loc, d) == <<[d |-> d, loc |-> loc]>>

\* q ran after p: its result, with p's diagnostics and allocations before it.
After(p, q) == [q EXCEPT !.diags = p.diags \o q.diags, !.news = p.news + q.news]

\* The expression parser: a primary expression is a literal or a name.
parseExpr(r, message) ==
  IF Tok(r).k \in {"integer_literal", "identifier"}
  THEN [ok |-> TRUE, rest |-> consumeToken(r), diags |-> <<>>]
  ELSE [ok |-> FALSE, rest |-> r, diags |-> diagnose(Loc(r), message)]

parseMatchingToken(r, k, message, otherLoc) ==
  IF Tok(r).k = k THEN [err |-> FALSE, rest |-> consumeToken(r), diags |-> <<>>]
  ELSE [err |-> TRUE, rest |-> r,
        diags |-> diagnose(Loc(r), message) \o diagnose(otherLoc, "opening")]

parseIdentifier(r, message) ==
  IF isIdentifierToken(Tok(r))
  THEN [err |-> FALSE, name |-> Tok(r).t, loc |-> Loc(r), rest |-> consumeToken(r),
        diags |-> <<>>]
  ELSE [err |-> TRUE, name |-> <<>>, loc |-> 0, rest |-> r,
        diags |-> diagnose(Loc(r), message)]

RECURSIVE parseAttributes(_, _)

\* attribute (','? attribute)*
parseAttributes(r, attrs) ==
  IF Tok(r).k = "identifier"
  THEN parseAttributes(consumeIf(consumeToken(r), "comma"), Append(attrs, Tok(r).t))
  ELSE [attrs |-> attrs, rest |-> r]

\* The closing ']' of the attribute list opened at cursor r, a being the
\* attributes parsed.
parseAttributeListEnd(r, a) ==
  IF Tok(a.rest).k = "r_square"
  THEN [attrs |-> a.attrs, rest |-> consumeToken(a.rest), diags |-> <<>>]
  ELSE [attrs |-> a.attrs,
        rest |-> consumeIf(skipUntil(a.rest, {"r_square"}), "r_square"),
        diags |-> diagnose(Loc(a.rest), "expected_in_attribute_list")
                  \o diagnose(Loc(r), "opening")]

\* attribute-list: nothing, or '[' ']', or '[' attribute (','? attribute)* ']'
parseAttributeList(r) ==
  IF Tok(r).k # "l_square" THEN [attrs |-> <<>>, rest |-> r, diags |-> <<>>]
  ELSE parseAttributeListEnd(r, parseAttributes(consumeToken(r), <<>>))

RECURSIVE parseType(_, _), parseTypeIdentifier(_), parseTypeTupleBody(_),
          parseTypeArray(_, _), parseGenericArguments(_), parseTypeAnnotation(_, _),
          parseFixedLengthArray(_, _, _)

applyAttributeToType(ty, attrs) ==
  IF attrs = <<>> THEN [node |-> ty, news |-> 0]
  ELSE [node |-> AttributedTypeRepr(attrs, ty), news |-> 1]

\* return applyAttributeToType(ty, attrs); a being what parseAttributeList
\* returned and t what parseType returned.
parseAnnotationResult(a, t) ==
  LET w == applyAttributeToType(t.node, a.attrs) IN
  P(w.node, t.rest, a.diags \o t.diags, t.news + w.news)

\* TypeRepr *ty = parseType(message); after the attribute list a.
parseAnnotationType(a, message) == parseAnnotationResult(a, parseType(a.rest, message))

parseTypeAnnotation(r, message) == parseAnnotationType(parseAttributeList(r), message)

parseTypeOptional(base, r) ==
  P(OptionalTypeRepr(base, Loc(r)), consumeToken(r), <<>>, 1)

\* parseFixedLengthArray building the array instead of rejecting it.
parseFixedLengthArray_Builds(base, lsquareLoc, r1) ==
  LET sizeEx == parseExpr(r1, "expected_expr_array_type") IN
  IF ~sizeEx.ok THEN P(Null, sizeEx.rest, sizeEx.diags, 0)
  ELSE LET m == parseMatchingToken(sizeEx.rest, "r_square",
                                   "expected_rbracket_array_type", lsquareLoc)
           ds == sizeEx.diags \o m.diags
       IN IF m.err THEN P(Null, m.rest, ds, 0)
          ELSE P(ArrayTypeRepr(base, Tok(r1), lsquareLoc, Loc(sizeEx.rest)),
                 m.rest, ds, 1)

\* The end of the fixed-size clause opened at lsquareLoc: in is what the
\* following clause returned, ds the diagnostics emitted before it.
parseFixedLengthArrayEnd(lsquareLoc, ds, in) ==
  IF IsNull(in.node) THEN P(Null, in.rest, ds \o in.diags, in.news)
  ELSE P(Null, in.rest,
         ds \o in.diags \o diagnose(lsquareLoc, "unsupported_fixed_length_array"),
         in.news)

\* The rest of parseTypeArray once '[' is consumed and Tok is not ']': a size
\* expression, the matching ']', a further clause, and the rejection.
parseFixedLengthArray(base, lsquareLoc, r1) ==
  LET sizeEx == parseExpr(r1, "expected_expr_array_type") IN
  IF ~sizeEx.ok THEN P(Null, sizeEx.rest, sizeEx.diags, 0)
  ELSE LET m == parseMatchingToken(sizeEx.rest, "r_square",
                                   "expected_rbracket_array_type", lsquareLoc)
           ds == sizeEx.diags \o m.diags
       IN IF m.err THEN P(Null, m.rest, ds, 0)
          ELSE IF isFollowingLSquare(Tok(m.rest))
          THEN parseFixedLengthArrayEnd(lsquareLoc, ds, parseTypeArray(base, m.rest))
          ELSE P(Null, m.rest,
                 ds \o diagnose(lsquareLoc, "unsupported_fixed_length_array"), 0)

\* The slice built around what the following clause returned.
parseArraySlice(lsquareLoc, rsquareLoc, in) ==
  IF IsNull(in.node) THEN in
  ELSE P(ArrayTypeRepr(in.node, Null, lsquareLoc, rsquareLoc),
         in.rest, in.diags, in.news + 1)

\* parseTypeArray dropping its own pair of brackets when another follows.
parseTypeArray_DropsOuter(base, r) ==
  LET lsquareLoc == Loc(r)
      r1 == consumeToken(r)
  IN IF Tok(r1).k = "r_square"
     THEN LET rsquareLoc == Loc(r1)
              r2 == consumeToken(r1)
          IN IF isFollowingLSquare(Tok(r2))
             THEN parseTypeArray(base, r2)
             ELSE P(ArrayTypeRepr(base, Null, lsquareLoc, rsquareLoc), r2, <<>>, 1)
     ELSE parseFixedLengthArray(base, lsquareLoc, r1)

parseTypeArray(base, r) ==
  LET lsquareLoc == Loc(r)
      r1 == consumeToken(r)
  IN IF Tok(r1).k = "r_square"
     THEN LET rsquareLoc == Loc(r1)
              r2 == consumeToken(r1)
          IN IF isFollowingLSquare(Tok(r2))
             THEN parseArraySlice(lsquareLoc, rsquareLoc, parseTypeArray(base, r2))
             ELSE P(ArrayTypeRepr(base, Null, lsquareLoc, rsquareLoc), r2, <<>>, 1)
     ELSE parseFixedLengthArray(base, lsquareLoc, r1)

\* Skip until we hit the '>': skipUntilAnyOperator, then consumeStartingGreater
\* if the operator starts with '>'.
skipToGreater(r) ==
  IF startsWithGreater(Tok(skipUntilAnyOperator(r)))
  THEN consumeStartingGreater(skipUntilAnyOperator(r))
  ELSE skipUntilAnyOperator(r)

RECURSIVE parseGenericArgumentLoop(_, _)

\* One pass of the do-while, t being what parseType returned.
parseGenericArgumentNext(t, args) ==
  IF IsNull(t.node)
  THEN [err |-> TRUE, args |-> args, rest |-> skipToGreater(t.rest),
        diags |-> t.diags, news |-> t.news]
  ELSE IF Tok(t.rest).k = "comma"
  THEN After(t, parseGenericArgumentLoop(consumeToken(t.rest), Append(args, t.node)))
  ELSE [err |-> FALSE, args |-> Append(args, t.node), rest |-> t.rest,
        diags |-> t.diags, news |-> t.news]

\* The do-while of parseGenericArguments; err says it returned true from inside.
parseGenericArgumentLoop(r, args) ==
  parseGenericArgumentNext(parseType(r, "expected_type"), args)

\* The closing '>', l being what the loop returned.
parseGenericArgumentsEnd(l, LAngleLoc) ==
  IF l.err THEN l
  ELSE IF ~startsWithGreater(Tok(l.rest))
  THEN [l EXCEPT !.err = TRUE,
                 !.rest = skipToGreater(l.rest),
                 !.diags = l.diags
                           \o diagnose(Loc(l.rest), "expected_rangle_generic_arg_list")
                           \o diagnose(LAngleLoc, "opening_angle")]
  ELSE [l EXCEPT !.rest = consumeStartingGreater(l.rest)]

parseGenericArguments(r) ==
  parseGenericArgumentsEnd(parseGenericArgumentLoop(consumeStartingLess(r), <<>>),
                           Loc(r))

RECURSIVE parseIdentifierLoop(_, _)

\* if (startsWithLess(Tok)) { if (parseGenericArguments(...)) return nullptr; }
parseComponentArguments(r) ==
  IF startsWithLess(Tok(r)) THEN parseGenericArguments(r)
  ELSE [err |-> FALSE, args |-> <<>>, rest |-> r, diags |-> <<>>, news |-> 0]

\* The component built from the identifier i and the arguments g, and the
\* period that goes on with the dotted type.
parseComponent(i, g, comps) ==
  IF g.err THEN P(Null, g.rest, g.diags, g.news)
  ELSE IF isPeriod(Tok(g.rest)) /\ peekToken(g.rest).k # "kw_metatype"
  THEN After(g, parseIdentifierLoop(consumeToken(g.rest),
                                    Append(comps, Component(i.loc, i.name, g.args))))
  ELSE P(IdentTypeRepr(Append(comps, Component(i.loc, i.name, g.args))),
         g.rest, g.diags, g.news + 1)

\* One pass of the while (true), i being what parseIdentifier returned.
parseIdentifierNext(i, comps) ==
  IF i.err THEN P(Null, i.rest, i.diags, 0)
  ELSE parseComponent(i, parseComponentArguments(i.rest), comps)

\* The while (true) of parseTypeIdentifier.  The scope lookup that follows it
\* only annotates the first component and is left out.
parseIdentifierLoop(r, comps) ==
  parseIdentifierNext(parseIdentifier(r, "expected_identifier_in_dotted_type"), comps)

parseTypeIdentifier(r) ==
  IF Tok(r).k # "identifier" /\ Tok(r).k # "kw_This"
  THEN P(Null, r, diagnose(Loc(r), "expected_identifier_for_type"), 0)
  ELSE parseIdentifierLoop(r, <<>>)

RECURSIVE parseCompositionLoop(_, _)

\* One pass of the do-while, p being what parseTypeIdentifier returned.
parseCompositionNext(p, protocols) ==
  IF IsNull(p.node)
  THEN [invalid |-> TRUE, protocols |-> protocols, rest |-> p.rest,
        diags |-> p.diags, news |-> p.news]
  ELSE IF Tok(p.rest).k = "comma"
  THEN After(p, parseCompositionLoop(consumeToken(p.rest), Append(protocols, p.node)))
  ELSE [invalid |-> FALSE, protocols |-> Append(protocols, p.node), rest |-> p.rest,
        diags |-> p.diags, news |-> p.news]

\* The do-while of parseTypeComposition.
parseCompositionLoop(r, protocols) ==
  parseCompositionNext(parseTypeIdentifier(r), protocols)

\* parseCompositionEnd failing the composition whose '>' is missing.
parseCompositionEnd_FailsUnclosed(l, ProtocolLoc, LAngleLoc) ==
  IF ~startsWithGreater(Tok(l.rest))
  THEN LET ds == IF ~l.invalid
                 THEN diagnose(Loc(l.rest), "expected_rangle_protocol")
                      \o diagnose(LAngleLoc, "opening_angle")
                 ELSE <<>>
       IN P(Null, skipToGreater(l.rest), l.diags \o ds, l.news)
  ELSE P(ProtocolCompositionTypeRepr(l.protocols, ProtocolLoc, LAngleLoc, Loc(l.rest)),
         consumeStartingGreater(l.rest), l.diags, l.news + 1)

\* The end of parseTypeComposition: the terminating '>' is checked for, its
\* absence diagnosed and skipped over, and the node is built from l.protocols.
parseCompositionEnd(l, ProtocolLoc, LAngleLoc) ==
  IF ~startsWithGreater(Tok(l.rest))
  THEN LET ds == IF ~l.invalid
                 THEN diagnose(Loc(l.rest), "expected_rangle_protocol")
                      \o diagnose(LAngleLoc, "opening_angle")
                 ELSE <<>>
           sk == skipUntilAnyOperator(l.rest)
           gt == startsWithGreater(Tok(sk))
       IN P(ProtocolCompositionTypeRepr(l.protocols, ProtocolLoc, LAngleLoc,
                                        IF gt THEN Loc(sk) ELSE Loc(l.rest)),
            IF gt THEN consumeStartingGreater(sk) ELSE sk,
            l.diags \o ds, l.news + 1)
  ELSE P(ProtocolCompositionTypeRepr(l.protocols, ProtocolLoc, LAngleLoc, Loc(l.rest)),
         consumeStartingGreater(l.rest), l.diags, l.news + 1)

parseTypeComposition(r) ==
  LET ProtocolLoc == Loc(r)
      r1 == consumeToken(r)
  IN IF ~startsWithLess(Tok(r1))
     THEN P(Null, r1, diagnose(Loc(r1), "expected_langle_protocol"), 0)
     ELSE LET LAngleLoc == Loc(r1)
              r2 == consumeStartingLess(r1)
          IN IF startsWithGreater(Tok(r2))
             THEN P(ProtocolCompositionTypeRepr(<<>>, ProtocolLoc, LAngleLoc, Loc(r2)),
                    consumeStartingGreater(r2), <<>>, 1)
             ELSE parseCompositionEnd(parseCompositionLoop(r2, <<>>),
                                      ProtocolLoc, LAngleLoc)

\* The state the element callback of parseTypeTupleBody shares with its caller:
\* the cursor, ElementsR, HadEllipsis, EllipsisLoc, and what has been emitted
\* and allocated; invalid is parseList's own flag.
ListState(r) ==
  [rest |-> r, elems |-> <<>>, hadEllipsis |-> FALSE, ellipsisLoc |-> 0,
   invalid |-> FALSE, done |-> FALSE, diags |-> <<>>, news |-> 0]

\* The callback's tail, once the element's type is parsed: '= expr', '...'.
tupleElementTail(st, t, elem, enews) ==
  LET q == IF Tok(t.rest).k = "equal"
           THEN LET init == parseExpr(consumeToken(t.rest), "expected_initializer_expr") IN
                [rest |-> init.rest,
                 diags |-> init.diags \o diagnose(Loc(t.rest), "tuple_type_init")]
           ELSE [rest |-> t.rest, diags |-> <<>>]
      s1 == [st EXCEPT !.elems = Append(st.elems, elem),
                       !.diags = st.diags \o t.diags \o q.diags,
                       !.news = st.news + t.news + enews]
  IN IF Tok(q.rest).k = "ellipsis"
     THEN LET r3 == consumeToken(q.rest) IN
          IF Tok(r3).k = "r_paren"
          THEN [s1 EXCEPT !.rest = r3, !.ellipsisLoc = Loc(q.rest), !.hadEllipsis = TRUE]
          ELSE [s1 EXCEPT !.rest = r3, !.ellipsisLoc = Loc(q.rest),
                          !.diags = s1.diags
                             \o diagnose(Loc(q.rest), "unexpected_ellipsis_in_tuple")]
     ELSE [s1 EXCEPT !.rest = q.rest]

\* if (!type) return true; the callback fails and parseList sets its flag.
tupleElementFailed(st, t) ==
  [st EXCEPT !.rest = t.rest, !.invalid = TRUE,
             !.diags = st.diags \o t.diags, !.news = st.news + t.news]

\* The element 'identifier : type-annotation', t being what the annotation
\* returned.
tupleElementNamed(st, t) ==
  IF IsNull(t.node) THEN tupleElementFailed(st, t)
  ELSE tupleElementTail(st, t, NamedTypeRepr(Tok(st.rest).t, t.node, Loc(st.rest)), 1)

\* The element 'type-annotation', t being what the annotation returned.
tupleElementBare(st, t) ==
  IF IsNull(t.node) THEN tupleElementFailed(st, t)
  ELSE tupleElementTail(st, t, t.node, 0)

\* The callback: one tuple element.
tupleElement(st) ==
  IF isStartOfBindingName(Tok(st.rest)) /\ peekToken(st.rest).k = "colon"
  THEN tupleElementNamed(
         st, parseTypeAnnotation(consumeToken(consumeToken(st.rest)), "expected_type"))
  ELSE tupleElementBare(st, parseTypeAnnotation(st.rest, "expected_type"))

RECURSIVE skipSeparators(_)

skipSeparators(st) ==
  IF Tok(st.rest).k = "comma"
  THEN skipSeparators([st EXCEPT !.rest = consumeToken(st.rest),
                                 !.diags = st.diags
                                    \o diagnose(Loc(st.rest), "unexpected_separator")])
  ELSE st

RECURSIVE parseListLoop(_)

\* The recovery of parseList when the element is followed neither by ')' nor
\* by ',': d is the list state after the diagnostic; when the element consumed
\* nothing the parser skips to the next ')' or ','.
parseListRecover(s0, d) ==
  IF Loc(d.rest) = Loc(s0.rest)
  THEN LET sk == skipUntil(d.rest, {"r_paren", "comma"}) IN
       IF Tok(sk).k = "r_paren" THEN [d EXCEPT !.rest = sk]
       ELSE IF Tok(sk).k = "eof" THEN [d EXCEPT !.rest = sk, !.done = TRUE]
       ELSE parseListLoop([d EXCEPT !.rest = consumeIf(sk, "comma")])
  ELSE parseListLoop(d)

\* What follows the element in parseList: s0 is the list state before the
\* element and c the one after it.
parseListNext(s0, c) ==
  IF Tok(c.rest).k = "r_paren" THEN c
  ELSE IF Tok(c.rest).k = "comma"
  THEN parseListLoop([c EXCEPT !.rest = consumeToken(c.rest)])
  ELSE parseListRecover(
         s0, [c EXCEPT !.invalid = TRUE,
                       !.diags = c.diags \o diagnose(Loc(c.rest), "expected_separator")])

parseListElement(s0) == parseListNext(s0, tupleElement(s0))

\* The loop of parseList(tok::r_paren, ..., tok::comma, OptionalSep=false, ...):
\* done says the list returned from inside the loop (end of file).
parseListLoop(st) == parseListElement(skipSeparators(st))

\* The matching ')' of the list, l being what the loop returned.
parseListEnd(l, LeftLoc) ==
  IF l.done THEN l
  ELSE LET m == parseMatchingToken(l.rest, "r_paren",
                                   "expected_rparen_tuple_type_list", LeftLoc)
       IN [l EXCEPT !.rest = m.rest, !.invalid = l.invalid \/ m.err,
                    !.diags = l.diags \o m.diags]

parseList(r, LeftLoc) ==
  IF Tok(r).k = "r_paren" THEN [ListState(r) EXCEPT !.rest = consumeToken(r)]
  ELSE parseListEnd(parseListLoop(ListState(r)), LeftLoc)

\* parseTypeTupleBody after parseList, l being the list state it left.
parseTupleResult(l, LPLoc) ==
  IF l.hadEllipsis /\ l.elems = <<>>
  THEN P(Null, l.rest, l.diags \o diagnose(l.ellipsisLoc, "empty_tuple_ellipsis"),
         l.news)
  ELSE P(TupleTypeRepr(l.elems, LPLoc, Loc(l.rest),
                       IF l.hadEllipsis THEN l.ellipsisLoc ELSE 0),
         l.rest, l.diags, l.news + 1)

parseTypeTupleBody(r) == parseTupleResult(parseList(consumeToken(r), Loc(r)), Loc(r))

RECURSIVE parseMetatypeLoop(_)

\* parseMetatypeLoop taking any member after a period for the metatype keyword.
parseMetatypeLoop_AnyMember(p) ==
  IF isPeriod(Tok(p.rest)) /\ peekToken(p.rest).k # "eof"
  THEN parseMetatypeLoop(
         P(MetaTypeTypeRepr(p.node, Loc(consumeToken(p.rest))),
           consumeToken(consumeToken(p.rest)), p.diags, p.news + 1))
  ELSE p

\* while (period && peek is metatype) ty = MetaTypeTypeRepr(ty, metatypeLoc)
parseMetatypeLoop(p) ==
  IF isPeriod(Tok(p.rest)) /\ peekToken(p.rest).k = "kw_metatype"
  THEN parseMetatypeLoop(
         P(MetaTypeTypeRepr(p.node, Loc(consumeToken(p.rest))),
           consumeToken(consumeToken(p.rest)), p.diags, p.news + 1))
  ELSE p

RECURSIVE parseOptionalLoop(_)

\* parseOptionalLoop without the start-of-line test.
parseOptionalLoop_AcrossLines(p) ==
  IF ~IsNull(p.node) /\ Tok(p.rest).k = "question"
  THEN parseOptionalLoop(After(p, parseTypeOptional(p.node, p.rest)))
  ELSE p

\* while (ty && Tok.is(tok::question) && !Tok.isAtStartOfLine())
parseOptionalLoop(p) ==
  IF ~IsNull(p.node) /\ Tok(p.rest).k = "question" /\ ~Tok(p.rest).sol
  THEN parseOptionalLoop(After(p, parseTypeOptional(p.node, p.rest)))
  ELSE p

parseTypeSimple(r, MessageID) ==
  CASE Tok(r).k \in {"kw_This", "identifier"} -> parseTypeIdentifier(r)
    [] Tok(r).k = "kw_protocol" -> parseTypeComposition(r)
    [] Tok(r).k = "l_paren" -> parseTypeTupleBody(r)
    [] OTHER -> P(Null, r, diagnose(Loc(r), MessageID), 0)

\* The function type of m and SecondHalf, the type parsed after the arrow.
parseTypeFunction(m, SecondHalf) ==
  IF IsNull(SecondHalf.node) THEN After(m, SecondHalf)
  ELSE After(m, P(FunctionTypeRepr(m.node, SecondHalf.node),
                  SecondHalf.rest, SecondHalf.diags, SecondHalf.news + 1))

\* If there is a square bracket without a newline, we have an array.
parseTypeArraySuffix(o) ==
  IF ~IsNull(o.node) /\ isFollowingLSquare(Tok(o.rest))
  THEN After(o, parseTypeArray(o.node, o.rest))
  ELSE o

\* The arrow, or the optional loop and the array, m being the type after the
\* metatype loop.
parseTypeSuffix(m) ==
  IF Tok(m.rest).k = "arrow"
  THEN parseTypeFunction(m, parseType(consumeToken(m.rest),
                                      "expected_type_function_result"))
  ELSE parseTypeArraySuffix(parseOptionalLoop(m))

\* parseType after its switch, s being what the switch returned.
parseTypePostfix(s) == IF IsNull(s.node) THEN s ELSE parseTypeSuffix(parseMetatypeLoop(s))

parseType(r, MessageID) == parseTypePostfix(parseTypeSimple(r, MessageID))

----------------------------------------------------------------------------
(* The parsing session: the caller (the declaration or expression parser)  *)
(* has a token buffer with the cursor at its start and calls one entry     *)
(* point of this file.                                                     *)

Bool(b) == [kind |-> "Bool", value |-> b]

IsNode(n) == n.kind \notin {"Null", "Bool"}

\* A committed-parser entry point was called with node a and returned p.
Committed(name, a, p) ==
  /\ op = "none"
  /\ op' = name
  /\ arg' = a
  /\ rest' = p.rest
  /\ result' = p.node
  /\ diags' = diags \o p.diags
  /\ allocated' = allocated + p.news
  /\ UNCHANGED toks

\* A prober entry point was called and returned c: the prober calls neither
\* diagnose nor new.
Probed(name, c) ==
  /\ op = "none"
  /\ op' = name
  /\ arg' = Null
  /\ rest' = c.rest
  /\ result' = Bool(c.ok)
  /\ UNCHANGED <<toks, diags, allocated>>

ParseType == Committed("parseType", Null, parseType(rest, "expected_type"))

ParseTypeAnnotation ==
  Committed("parseTypeAnnotation", Null, parseTypeAnnotation(rest, "expected_type"))

ParseTypeIdentifier == Committed("parseTypeIdentifier", Null, parseTypeIdentifier(rest))

ParseTypeComposition ==
  /\ Tok(rest).k = "kw_protocol"
  /\ Committed("parseTypeComposition", Null, parseTypeComposition(rest))

ParseTypeTupleBody ==
  /\ Tok(rest).k = "l_paren"
  /\ Committed("parseTypeTupleBody", Null, parseTypeTupleBody(rest))

\* The types a caller has in hand when it sees a following '['.
BaseTypes ==
  {IdentTypeRepr(<<Component(0, <<"T">>, <<>>)>>),
   OptionalTypeRepr(IdentTypeRepr(<<Component(0, <<"T">>, <<>>)>>), 0)}

ParseTypeArray ==
  /\ isFollowingLSquare(Tok(rest))
  /\ \E base \in BaseTypes :
       Committed("parseTypeArray", base, parseTypeArray(base, rest))

CanParseType == Probed("canParseType", canParseType(rest))

CanParseGenericArguments ==
  Probed("canParseGenericArguments", canParseGenericArguments(rest))

CanParseAsGenericArgumentList ==
  Probed("canParseAsGenericArgumentList", canParseAsGenericArgumentList(rest))

\* A buffer the lexer can produce: only a token right after an operator that
\* ends in '>' has '>' as the character before it.
WellFormedBuffer(s) ==
  \A i \in 1..Len(s) :
    s[i].prev = ">" =>
      i > 1 /\ isAnyOperator(s[i - 1]) /\ s[i - 1].t[Len(s[i - 1].t)] = ">"

\* The session starts on buffer b with the cursor at its first token.
Start(b) ==
  /\ WellFormedBuffer(b)
  /\ toks = b
  /\ rest = b
  /\ op = "none"
  /\ result = Null
  /\ arg = Null
  /\ diags = <<>>
  /\ allocated = 0

\* The buffer is prefix, then at most n tokens of A, then one of Suffixes, then
\* the eof token.
InitWith(prefix, A, n, Suffixes) ==
  \E k \in 0..n : \E s \in [1..k -> A] : \E x \in Suffixes :
    Start(prefix \o s \o x \o <<EofTok>>)

IdA == Tk("identifier", <<"A">>)

IdB == Tk("identifier", <<"B">>)

LParen == Tk("l_paren", <<>>)

RParen == Tk("r_paren", <<>>)

LSquare == Tk("l_square", <<>>)

RSquare == Tk("r_square", <<>>)

LBrace == Tk("l_brace", <<>>)

RBrace == Tk("r_brace", <<>>)

Ellipsis == Tk("ellipsis", <<>>)

Comma == Tk("comma", <<>>)

Semi == Tk("semi", <<>>)

Colon == Tk("colon", <<>>)

Equal == Tk("equal", <<>>)

Arrow == Tk("arrow", <<>>)

Question == Tk("question", <<>>)

Period == Tk("period", <<>>)

PeriodPrefix == Tk("period_prefix", <<>>)

KwMetatype == Tk("kw_metatype", <<>>)

KwProtocol == Tk("kw_protocol", <<>>)

KwThis == Tk("kw_This", <<"This">>)

KwVar == Tk("kw_var", <<>>)

IntLit == Tk("integer_literal", <<"4">>)

Less == Tk("oper", <<"<">>)

Greater == Tk("oper", <<">">>)

LessGreater == Tk("oper", <<"<", ">">>)

GreaterGreater == Tk("oper", <<">", ">">>)

Plus == Tk("oper", <<"+">>)

----------------------------------------------------------------------------
(* Array suffixes: parseTypeArray on its own and under parseType.          *)

MaxArrayLen == 5

ArrayTokens == {IdA, LSquare, AtLine(LSquare), RSquare, IntLit, RParen}

InitArray == InitWith(<<>>, ArrayTokens, MaxArrayLen, {<<>>})

NextArray == ParseTypeArray \/ ParseType \/ CanParseType

SpecArray == InitArray /\ [][NextArray]_vars

HasDiag(d) == \E i \in 1..Len(diags) : diags[i].d = d

At(i) == IF i <= Len(toks) THEN toks[i] ELSE EofTok

RECURSIVE BracketPairs(_)

\* The number of '[' ']' pairs in a row from token i on, each '[' on the line
\* of the token before it.
BracketPairs(i) ==
  IF isFollowingLSquare(At(i)) /\ At(i + 1).k = "r_square"
  THEN 1 + BracketPairs(i + 2)
  ELSE 0

RECURSIVE ArrayDepth(_), ArrayBase(_), AllSlices(_), ArrayLSquares(_)

ArrayDepth(n) == IF n.kind = "Array" THEN 1 + ArrayDepth(n.base) ELSE 0

ArrayBase(n) == IF n.kind = "Array" THEN ArrayBase(n.base) ELSE n

AllSlices(n) == n.kind = "Array" => IsNull(n.size) /\ AllSlices(n.base)

ArrayLSquares(n) ==
  IF n.kind = "Array" THEN <<n.lsquare>> \o ArrayLSquares(n.base) ELSE <<>>

\* Tokens i, i+1, ... are n >= 1 empty bracket pairs and then no further clause.
SlicesFrom(i, n) ==
  /\ n >= 1
  /\ BracketPairs(i) = n
  /\ ~isFollowingLSquare(At(i + 2 * n))

\* The result is n nested slices over base, the first pair outermost.
NestedSlices(n, i) ==
  /\ IsNode(result)
  /\ ArrayDepth(result) = n
  /\ AllSlices(result)
  /\ ArrayLSquares(result) = [j \in 1..n |-> i + 2 * (j - 1)]
  /\ rest = SubSeq(toks, i + 2 * n, Len(toks))

\* C9: a base type followed by n >= 1 empty bracket pairs on the same line
\* parses to n nested Array nodes, the base innermost, one node per pair and
\* none with a size expression: under parseTypeArray the base is the type it
\* was handed, under parseType it is the identifier type before the brackets.
C9_ArrayNesting ==
  \A n \in 1..MaxArrayLen :
    /\ (op = "parseTypeArray" /\ SlicesFrom(1, n))
         => NestedSlices(n, 1) /\ ArrayBase(result) = arg /\ allocated = n
    /\ (op = "parseType" /\ toks[1] = IdA /\ SlicesFrom(2, n))
         => /\ NestedSlices(n, 2)
            /\ ArrayBase(result) = IdentTypeRepr(<<Component(1, <<"A">>, <<>>)>>)
            /\ allocated = n + 1

C9_Witness ==
  /\ op = "parseType"
  /\ toks[1] = IdA
  /\ SlicesFrom(2, 2)
  /\ ArrayDepth(result) = 2

FixedSize == op = "parseTypeArray" /\ At(2).k # "r_square"

SizeParses == At(2).k \in {"integer_literal", "identifier"}

\* C4 as stated: a '[' not followed by ']' always gives no node and always
\* the unsupported-fixed-length-array diagnostic.
C4_AlwaysUnsupported ==
  FixedSize => IsNull(result) /\ HasDiag("unsupported_fixed_length_array")

\* C4 amended: a '[' not followed by ']' always gives no node; the unsupported
\* diagnostic is emitted when the size expression parses, its ']' is found and
\* no further bracket clause follows, and is not emitted when the size
\* expression does not parse or its ']' is missing.
C4_FixedSizeRejected ==
  FixedSize =>
    /\ IsNull(result)
    /\ (SizeParses /\ At(3).k = "r_square" /\ ~isFollowingLSquare(At(4)))
         => HasDiag("unsupported_fixed_length_array")
    /\ (~SizeParses \/ At(3).k # "r_square")
         => ~HasDiag("unsupported_fixed_length_array")
    /\ ~SizeParses => diags = diagnose(2, "expected_expr_array_type")

C4_Witness ==
  /\ FixedSize
  /\ SizeParses
  /\ At(3).k = "r_square"
  /\ HasDiag("unsupported_fixed_length_array")
  /\ IsNull(result)

----------------------------------------------------------------------------
(* Types: parseType and canParseType on the same buffers.                  *)

MaxTupleLen == 5

MaxGenericLen == 5

MaxPathLen == 5

MaxSuffixLen == 4

TupleTokens == {RParen, IdA, Ellipsis, Comma, Colon, Equal, LSquare, RSquare}

GenericTokens == {IdA, Less, Greater, GreaterGreater, LessGreater, Comma, KwProtocol}

PathTokens == {IdA, Period, KwMetatype, LParen, RParen, Arrow}

SuffixTokens ==
  {IdA, Question, AtLine(Question), LSquare, AtLine(LSquare), RSquare, IntLit, Arrow}

InitTypes ==
  \/ InitWith(<<LParen>>, TupleTokens, MaxTupleLen, {<<>>})
  \/ InitWith(<<>>, GenericTokens, MaxGenericLen, {<<>>})
  \/ InitWith(<<>>, PathTokens, MaxPathLen, {<<>>})
  \/ InitWith(<<>>, SuffixTokens, MaxSuffixLen, {<<>>})

NextTypes == ParseType \/ CanParseType

SpecTypes == InitTypes /\ [][NextTypes]_vars

Range(q) == {q[i] : i \in 1..Len(q)}

\* The nodes a node holds.
ChildSet(n) ==
  CASE n.kind \in {"Metatype", "Optional", "Array"} -> {n.base}
    [] n.kind = "Function" -> {n.arg, n.res}
    [] n.kind = "Tuple" -> Range(n.elems)
    [] n.kind = "Named" -> {n.type}
    [] n.kind = "Attributed" -> {n.ty}
    [] n.kind = "Ident" -> UNION {Range(n.comps[i].args) : i \in 1..Len(n.comps)}
    [] n.kind = "ProtocolComposition" -> Range(n.protocols)
    [] OTHER -> {}

RECURSIVE Nodes(_)

\* Every node of the tree under n.
Nodes(n) == {n} \cup UNION {Nodes(c) : c \in ChildSet(n)}

Called(names) == op \in names

Both == {"parseType", "canParseType"}

From(i) == SubSeq(toks, i, Len(toks))

\* C1 as stated: canParseType returns true if and only if parseType on the same
\* tokens returns a node.
C1_ProberIffParser ==
  Called({"canParseType"})
    => (result.value <=> ~IsNull(parseType(toks, "expected_type").node))

\* C1 amended: whenever canParseType returns true, parseType on the same
\* tokens returns a node, and whenever parseType returns a node without
\* emitting a diagnostic, canParseType returns true (a node returned after a
\* diagnostic, as for a malformed tuple body or an unclosed protocol
\* composition, need not be mirrored by the prober).
C1_ProberImpliesParser ==
  /\ (Called({"canParseType"}) /\ result.value)
       => ~IsNull(parseType(toks, "expected_type").node)
  /\ (Called({"parseType"}) /\ IsNull(result)) => ~canParseType(toks).ok
  /\ (Called({"parseType"}) /\ ~IsNull(result) /\ diags = <<>>)
       => canParseType(toks).ok

C1_Witness ==
  /\ Called({"canParseType"})
  /\ result.value
  /\ toks[1] = LParen
  /\ \E i \in 1..Len(toks) : toks[i] = Ellipsis
  /\ ~IsNull(parseType(toks, "expected_type").node)

\* C7 as stated: in 'Foo.bar' the period is not consumed; the parse stops
\* after 'Foo' with the cursor on the separator.
C7_DottedNameNotConsumed ==
  (Called(Both) /\ toks[1] = IdA /\ isPeriod(At(2)) /\ At(3) = IdA)
    => rest = From(2)

\* C7 amended: a period is consumed as a metatype suffix only when the token
\* after it is the metatype keyword; after a tuple or after a metatype suffix
\* a period followed by anything else is left on the cursor for the caller;
\* but right after an identifier component such a period is consumed as the
\* path separator of a dotted type, so 'Foo.bar' parses to one identifier
\* type with the components Foo and bar and the cursor after bar.
C7_MetatypeSuffix ==
  /\ Called({"parseType"}) =>
       \A n \in Nodes(result) :
         n.kind = "Metatype" =>
           At(n.metatypeLoc).k = "kw_metatype" /\ isPeriod(At(n.metatypeLoc - 1))
  /\ (Called(Both) /\ toks[1] = LParen /\ At(2) = RParen /\ isPeriod(At(3))
        /\ At(4).k # "kw_metatype")
       => /\ rest = From(3)
          /\ Called({"parseType"}) => result = TupleTypeRepr(<<>>, 1, 3, 0)
          /\ Called({"canParseType"}) => result.value
  /\ (Called(Both) /\ toks[1] = IdA /\ isPeriod(At(2)) /\ At(3) = KwMetatype
        /\ isPeriod(At(4)) /\ At(5).k # "kw_metatype")
       => /\ rest = From(4)
          /\ Called({"parseType"}) =>
               result = MetaTypeTypeRepr(IdentTypeRepr(<<Component(1, <<"A">>, <<>>)>>), 3)
          /\ Called({"canParseType"}) => result.value
  /\ (Called(Both) /\ toks[1] = IdA /\ isPeriod(At(2)) /\ At(3) = IdA
        /\ At(4).k \in {"eof", "r_paren"})
       => /\ rest = From(4)
          /\ Called({"parseType"}) =>
               result = IdentTypeRepr(<<Component(1, <<"A">>, <<>>),
                                        Component(3, <<"A">>, <<>>)>>)
          /\ Called({"canParseType"}) => result.value

C7_Witness ==
  /\ Called({"parseType"})
  /\ toks[1] = IdA /\ At(2) = Period /\ At(3) = KwMetatype
  /\ At(4) = Period /\ At(5) = IdA
  /\ result.kind = "Metatype"
  /\ Tok(rest) = Period

RECURSIVE QuestionRun(_)

\* The number of '?' tokens in a row from token i on, none starting a line.
QuestionRun(i) ==
  IF At(i).k = "question" /\ ~At(i).sol THEN 1 + QuestionRun(i + 1) ELSE 0

RECURSIVE OptionalDepth(_)

OptionalDepth(n) == IF n.kind = "Optional" THEN 1 + OptionalDepth(n.base) ELSE 0

LineStartSuffix(tok) == tok.sol /\ tok.k \in {"question", "l_square"}

\* C8: no '?' and no '[' at the start of a line is consumed as a suffix: no
\* Optional or Array node of the result comes from such a token, and when the
\* token after a complete type (an identifier with its '?' suffixes, or with
\* its empty bracket pairs) is such a token, the call returns with the cursor
\* on it and the result wrapped no further.
C8_NoSuffixAcrossLines ==
  /\ Called({"parseType"}) =>
       \A n \in Nodes(result) :
         /\ n.kind = "Optional" => ~At(n.questionLoc).sol
         /\ n.kind = "Array" => ~At(n.lsquare).sol
  /\ \A q \in 0..MaxSuffixLen :
       (Called(Both) /\ toks[1] = IdA /\ QuestionRun(2) = q
          /\ LineStartSuffix(At(2 + q)))
         => /\ rest = From(2 + q)
            /\ Called({"parseType"}) =>
                 /\ OptionalDepth(result) = q
                 /\ \A n \in Nodes(result) : n.kind # "Array"
            /\ Called({"canParseType"}) => result.value
  /\ \A n \in 1..MaxSuffixLen :
       (Called(Both) /\ toks[1] = IdA /\ BracketPairs(2) = n
          /\ LineStartSuffix(At(2 + 2 * n)))
         => /\ rest = From(2 + 2 * n)
            /\ Called({"parseType"}) => ArrayDepth(result) = n
            /\ Called({"canParseType"}) => result.value

C8_Witness ==
  /\ Called({"parseType"})
  /\ toks[1] = IdA /\ At(2) = Question /\ At(3) = AtLine(Question)
  /\ OptionalDepth(result) = 1
  /\ Tok(rest) = AtLine(Question)

----------------------------------------------------------------------------
(* Generic argument lists: the '<' disambiguation.                         *)

MaxListLen == 5

ListTokens == {IdA, Less, Greater, Comma}

FollowerTokens ==
  {RParen, RSquare, LBrace, RBrace, Period, Comma, Semi, PeriodPrefix,
   AfterGreater(PeriodPrefix), LParen, AtLine(LParen), LSquare, AtLine(LSquare),
   IdB, Plus, Question}

Followers == {<<>>} \cup {<<f>> : f \in FollowerTokens}

InitGeneric == InitWith(<<>>, ListTokens, MaxListLen, Followers)

NextGeneric ==
  CanParseAsGenericArgumentList \/ CanParseGenericArguments \/ ParseTypeIdentifier

SpecGeneric == InitGeneric /\ [][NextGeneric]_vars

\* C2: canParseAsGenericArgumentList is pure lookahead: whatever it returns,
\* the cursor after the call is where it was before the call (the start of
\* the buffer), no diagnostic has been emitted and no node allocated.
C2_PureLookahead ==
  Called({"canParseAsGenericArgumentList"})
    => rest = toks /\ diags = <<>> /\ allocated = 0 /\ result.kind = "Bool"

C2_Witness ==
  /\ Called({"canParseAsGenericArgumentList"})
  /\ result.value
  /\ Len(toks) >= 5
  /\ rest = toks

\* The claim's disambiguating set, token by token.
Disambiguates(tok) ==
  \/ tok.k \in {"r_paren", "r_square", "l_brace", "r_brace", "period", "comma",
                "semi", "eof"}
  \/ tok.k = "period_prefix" /\ tok.prev = ">"
  \/ tok.k \in {"l_paren", "l_square"} /\ ~tok.sol

RECURSIVE RefTypeEnds(_), RefArgsEnds(_)

\* The grammar of the types these buffers can hold, as the sets of positions
\* where a phrase that starts at token i can end:
\*   type ::= component ('.' component)*
\*   component ::= identifier | identifier '<' type (',' type)* '>'
RefComponentEnds(i) ==
  IF At(i).k # "identifier" THEN {}
  ELSE {i + 1} \cup
       (IF At(i + 1) = Less
        THEN {j + 1 : j \in {e \in RefArgsEnds(i + 2) : At(e) = Greater}}
        ELSE {})

RefTypeEnds(i) ==
  LET c == RefComponentEnds(i) IN
  c \cup UNION {RefTypeEnds(j + 1) : j \in {e \in c : isPeriod(At(e))}}

RefArgsEnds(i) ==
  LET t == RefTypeEnds(i) IN
  t \cup UNION {RefArgsEnds(j + 1) : j \in {e \in t : At(e) = Comma}}

\* '<', a comma-separated list of types, '>', and a disambiguating token.
RefGenericArgumentList ==
  /\ At(1) = Less
  /\ \E e \in RefArgsEnds(2) : At(e) = Greater /\ Disambiguates(At(e + 1))

ArrayOfInt ==
  IdentTypeRepr(<<Component(1, <<"A">>,
                            <<IdentTypeRepr(<<Component(3, <<"A">>, <<>>)>>)>>)>>)

----------------------------------------------------------------------------
(* Tuple bodies and type annotations.                                      *)

MaxAnnotationLen == 4

AnnotationTokens == {IdA, LSquare, RSquare, Comma, RParen, Question, Arrow}

InitTuple ==
  \/ InitWith(<<LParen>>, TupleTokens, MaxTupleLen, {<<>>})
  \/ InitWith(<<>>, AnnotationTokens, MaxAnnotationLen, {<<>>})

NextTuple == ParseTypeTupleBody \/ ParseTypeAnnotation

SpecTuple == InitTuple /\ [][NextTuple]_vars

\* C5: parseTypeAnnotation returns null whenever the type parse after the
\* attribute list fails, with or without attributes; when the type parse
\* succeeds it returns the type wrapped in an Attributed node if and only if
\* at least one attribute was parsed, and the bare type otherwise.
C5_AnnotationResult ==
  Called({"parseTypeAnnotation"}) =>
    LET a == parseAttributeList(toks)
        t == parseType(a.rest, "expected_type")
    IN /\ IsNull(t.node) => IsNull(result)
       /\ ~IsNull(t.node) =>
            result = IF a.attrs # <<>> THEN AttributedTypeRepr(a.attrs, t.node)
                     ELSE t.node

\* C6: '(Int...)' and '(Int, String...)' return a tuple carrying the variadic
\* marker and the ellipsis location; '(...)' returns no node and emits a
\* diagnostic; no returned tuple is variadic with zero elements.
C6_VariadicValidity ==
  Called({"parseTypeTupleBody"}) =>
    /\ toks = <<LParen, IdA, Ellipsis, RParen, EofTok>>
         => result.kind = "Tuple" /\ Len(result.elems) = 1 /\ result.ellipsis = 3
    /\ toks = <<LParen, IdA, Comma, IdA, Ellipsis, RParen, EofTok>>
         => result.kind = "Tuple" /\ Len(result.elems) = 2 /\ result.ellipsis = 5
    /\ toks = <<LParen, Ellipsis, RParen, EofTok>>
         => IsNull(result) /\ diags # <<>>
    /\ result.kind = "Tuple" /\ result.ellipsis # 0 => result.elems # <<>>

----------------------------------------------------------------------------
(* Protocol compositions.                                                  *)

MaxCompositionLen == 5

CompositionTokens ==
  {IdA, IdB, Less, Greater, LessGreater, GreaterGreater, Comma, Plus, Period}

InitComposition == InitWith(<<KwProtocol>>, CompositionTokens, MaxCompositionLen, {<<>>})

NextComposition == ParseTypeComposition \/ ParseType

SpecComposition == InitComposition /\ [][NextComposition]_vars

Named(name, i) == IdentTypeRepr(<<Component(i, <<name>>, <<>>)>>)

\* The first operator token (or the end of file) at or after token i.
NextOperator(i) ==
  CHOOSE j \in i..Len(toks) :
    /\ isAnyOperator(toks[j]) \/ toks[j].k = "eof"
    /\ \A m \in i..(j - 1) : ~isAnyOperator(toks[m])

\* C10: once 'protocol' and '<' are consumed, parseTypeComposition always
\* returns a composition node: 'protocol<>' has no members; 'protocol<A, B>'
\* has the members A and B in order; when the members parsed and the closing
\* '>' is missing, the missing-'>' diagnostic and a note at the '<' are
\* emitted, the parser skips to the next operator token, consumes it only if
\* it starts with '>', and the node holds exactly the members parsed.
C10_CompositionNode ==
  (Called({"parseTypeComposition"}) /\ startsWithLess(At(2))) =>
    LET l == parseCompositionLoop(consumeStartingLess(Tail(toks)), <<>>)
        j == NextOperator(Loc(l.rest))
    IN /\ result.kind = "ProtocolComposition"
       /\ (At(2) = LessGreater \/ (At(2) = Less /\ startsWithGreater(At(3))))
            => result.protocols = <<>> /\ diags = <<>>
       /\ toks = <<KwProtocol, Less, IdA, Comma, IdB, Greater, EofTok>>
            => /\ result.protocols = <<Named("A", 3), Named("B", 5)>>
               /\ diags = <<>>
               /\ rest = <<EofTok>>
       /\ (~startsWithGreater(At(3)) /\ At(2) = Less /\ ~l.invalid
             /\ ~startsWithGreater(Tok(l.rest)))
            => /\ diags = l.diags
                            \o diagnose(Loc(l.rest), "expected_rangle_protocol")
                            \o diagnose(2, "opening_angle")
               /\ result.protocols = l.protocols
               /\ l.protocols # <<>>
               /\ rest = IF startsWithGreater(toks[j])
                         THEN consumeStartingGreater(From(j)) ELSE From(j)

C10_Witness ==
  /\ Called({"parseTypeComposition"})
  /\ Len(toks) >= 6
  /\ SubSeq(toks, 1, 5) = <<KwProtocol, Less, IdA, IdB, Greater>>
  /\ HasDiag("expected_rangle_protocol")
  /\ result.kind = "ProtocolComposition"
  /\ result.protocols = <<Named("A", 3)>>
  /\ rest = From(6)

====
